---- MODULE Spec2Model ----
(***************************************************************************)
(* State-machine model of the voxel building-game pages.                   *)
(*                                                                         *)
(* The repository holds four variants of the page component `Index`:       *)
(*   "flat2d" : src/src/pages/Index.tsx  (2D side view, click to edit)     *)
(*   "drag"   : src/unnamed/part_002     (first person, mouse-drag look)   *)
(*   "lock"   : src/unnamed/part_000     (first person, pointer capture)   *)
(*   "full"   : src/unnamed/part_001     (pointer capture, chat, crafting) *)
(* The variable `variant` is fixed by Init and selects which page's code   *)
(* the actions follow.                                                     *)
(*                                                                         *)
(* Numbers.  Positions are fixed-point integers, Unit per block, so the    *)
(* speeds 0.2 and 0.15 and the half-block ray steps are exact.  Angles are *)
(* whole quarter turns (pi/2), for which sin and cos are exactly -1, 0, 1; *)
(* a pointer delta is the number of quarter turns it adds.  Math.round is  *)
(* floor(v + 0.5), as in ECMAScript.                                       *)
(***************************************************************************)
EXTENDS Integers, Sequences, FiniteSets, TLC

VARIABLES
    variant,         \* which page component is mounted
    gameMode,        \* useState<GameMode>
    selectedServer,  \* useState<ServerName | null>, "null" when none
    world,           \* useState<Block[]>: sequence of blocks, in push order
    inventory,       \* useState<InventoryItem[]>
    selectedBlock,   \* useState<BlockType>
    health,          \* useState(100)
    hunger,          \* useState(100), in halves (200 = 100.0)
    showInventory,   \* useState(false)
    showChat,        \* useState(false)            ("full" only)
    camera,          \* useState<Camera>
    handAnimation,   \* swing phase, in tenths of a radian
    isSwinging,      \* useState(false)
    pointerLocked,   \* useState(false): the page's record of the capture
    lockElement,     \* browser: document.pointerLockElement === canvas
    lockPending,     \* browser: a pointerlockchange event is queued
    mouseDown,       \* useRef(false)              ("drag" only)
    keysPressed,     \* useRef<Set<string>>
    bots,            \* useState<Bot[]>            ("full" only)
    chatMessages,    \* useState<ChatMessage[]>    ("full" only)
    toast,           \* the notification emitted by the last event, or "none"
    event,           \* the last event handled, with its input
    edits,           \* number of blocks placed or removed so far
    render,          \* the last rendering call, its arguments and its result
    held             \* keyboard: the motion keys physically held down

vars == <<variant, gameMode, selectedServer, world, inventory, selectedBlock,
          health, hunger, showInventory, showChat, camera, handAnimation,
          isSwinging, pointerLocked, lockElement, lockPending, mouseDown,
          keysPressed, bots, chatMessages, toast, event, edits, render, held>>

-----------------------------------------------------------------------------
(* Bounds of the model *)

\* largest yaw, in quarter turns, a pointer move may reach (the least is 0)
MaxYaw == 2

\* number of motion ticks the camera may be away from its spawn height
MaxTicks == 4

\* number of successful block edits explored
MaxEdits == 2

\* number of outcomes of the random source explored by the terrain generators
MaxSeed == 1

-----------------------------------------------------------------------------
(* Program constants *)

WORLD_SIZE == 30

RENDER_DISTANCE == 15

DRAG_WORLD_SIZE == 16

WORLD_WIDTH == 20

WORLD_HEIGHT == 15

\* fixed-point scale: Unit = one block
Unit == 10 * 10

Variants == {"flat2d", "drag", "lock", "full"}

FirstPerson == {"drag", "lock", "full"}

Capture == {"lock", "full"}

\* an event without recorded input
Ev(n) == [name |-> n, at |-> <<>>]

Min(a, b) == IF a < b THEN a ELSE b

Max(a, b) == IF a > b THEN a ELSE b

\* Math.round on a fixed-point value: nearest integer, halves go up
Round(v) == (v + (Unit \div 2)) \div Unit

\* Math.sin / Math.cos of q quarter turns
Sin(q) == CASE q % 4 = 0 -> 0 [] q % 4 = 1 -> 1 [] q % 4 = 2 -> 0 [] OTHER -> -1

Cos(q) == CASE q % 4 = 0 -> 1 [] q % 4 = 1 -> 0 [] q % 4 = 2 -> -1 [] OTHER -> 0

RECURSIVE ConcatRange(_, _, _)
\* f[lo] \o ... \o f[hi], by halving
ConcatRange(f, lo, hi) ==
    IF lo > hi THEN <<>>
    ELSE IF lo = hi THEN f[lo]
    ELSE ConcatRange(f, lo, (lo + hi) \div 2)
           \o ConcatRange(f, ((lo + hi) \div 2) + 1, hi)

\* f[1] \o f[2] \o ... \o f[n]: the pushes of n loop iterations, in order
Concat(f, n) == ConcatRange(f, 1, n)

Block(t, bx, by, bz) == [type |-> t, x |-> bx, y |-> by, z |-> bz]

-----------------------------------------------------------------------------
(* World generators *)

\* the three blocks pushed for column i of the flat base (x outer, z inner)
generateFlatWorld ==
    [i \in 1..(3 * WORLD_SIZE * WORLD_SIZE) |->
        Block(IF (i - 1) % 3 = 0 THEN "grass" ELSE "dirt",
              (i - 1) \div (3 * WORLD_SIZE),
              -((i - 1) % 3),
              ((i - 1) \div 3) % WORLD_SIZE)]

buildHouse(startX, startZ, width, depth, height) ==
    LET wallX(y) == [i \in 1..(2 * width) |->
                        Block("planks", startX + ((i - 1) \div 2), y,
                              IF (i - 1) % 2 = 0 THEN startZ ELSE startZ + depth - 1)]
        wallZ(y) == [i \in 1..(2 * depth) |->
                        Block("planks",
                              IF (i - 1) % 2 = 0 THEN startX ELSE startX + width - 1,
                              y, startZ + ((i - 1) \div 2))]
        walls == Concat([y \in 1..height |-> wallX(y) \o wallZ(y)], height)
        roof  == [i \in 1..(width * depth) |->
                        Block("wood", startX + ((i - 1) \div depth), height + 1,
                              startZ + ((i - 1) % depth))]
        door  == << Block("air", startX + (width \div 2), 1, startZ),
                    Block("air", startX + (width \div 2), 2, startZ) >>
    IN walls \o roof \o door

\* fault injection: a village generator that pushes onto the current world
\* instead of a fresh array
generateVillageOnto ==
    world \o generateFlatWorld \o buildHouse(5, 5, 6, 6, 3)

generateVillage ==
    LET plaza == [i \in 1..9 |->
                    Block("cobblestone", 10 + ((i - 1) \div 3), 1, 10 + ((i - 1) % 3))]
    IN generateFlatWorld
         \o buildHouse(5, 5, 6, 6, 3)
         \o buildHouse(13, 5, 5, 5, 3)
         \o buildHouse(5, 13, 7, 6, 3)
         \o buildHouse(14, 14, 6, 6, 4)
         \o plaza

\* outcome of Math.floor(Math.random() * 3) + base for column (x, z)
randomHeight(seed, base, x, z) == base + ((x + 2 * z + seed) % 3)

\* outcome of Math.random() > threshold for column (x, z)
randomTree(seed, x, z) == (3 * x + 5 * z + seed) % 7 = 0

\* the blocks pushed for one column: stone, dirt, grass, then the tree
column(seed, base, treeHeight, x, z) ==
    LET height == randomHeight(seed, base, x, z)
        ground == [j \in 1..height |->
                     Block(IF j - 1 = height - 1 THEN "grass"
                           ELSE IF j - 1 > height - 4 THEN "dirt" ELSE "stone",
                           x, j - 1, z)]
        tree   == IF randomTree(seed, x, z)
                  THEN [t \in 1..treeHeight |-> Block("wood", x, height + t - 1, z)]
                  ELSE <<>>
    IN ground \o tree

\* generateWorld of the mouse-drag page: layered terrain with trees
generateWorld3D(seed) ==
    Concat([i \in 1..(DRAG_WORLD_SIZE * DRAG_WORLD_SIZE) |->
               column(seed, 4, 4, (i - 1) \div DRAG_WORLD_SIZE,
                      (i - 1) % DRAG_WORLD_SIZE)],
           DRAG_WORLD_SIZE * DRAG_WORLD_SIZE)

\* generateWorld of the 2D page: one row of columns at z = 0
generateWorld2D(seed) ==
    Concat([i \in 1..WORLD_WIDTH |-> column(seed, 8, 3, i - 1, 0)], WORLD_WIDTH)

-----------------------------------------------------------------------------
(* World Store lookups and inventory helpers *)

SameCell(b, cx, cy, cz) == b.x = cx /\ b.y = cy /\ b.z = cz

\* fault injection: an occupancy test that never finds a block
existsNever(w, cx, cy, cz) == FALSE

\* world.some(b => b.x === x && b.y === y && b.z === z)
exists(w, cx, cy, cz) == \E i \in 1..Len(w) : SameCell(w[i], cx, cy, cz)

\* world.findIndex(...) on all three coordinates: first match, 0 when none
findIndex(w, cx, cy, cz) ==
    LET hits == {i \in 1..Len(w) : SameCell(w[i], cx, cy, cz)}
    IN IF hits = {} THEN 0 ELSE CHOOSE i \in hits : \A j \in hits : i <= j

\* world.findIndex(b => b.x === clickX && b.y === clickY) of the 2D page
findIndex2D(w, cx, cy) ==
    LET hits == {i \in 1..Len(w) : w[i].x = cx /\ w[i].y = cy}
    IN IF hits = {} THEN 0 ELSE CHOOSE i \in hits : \A j \in hits : i <= j

\* world.filter((_, i) => i !== blockIndex)
removeAt(w, k) == [i \in 1..(Len(w) - 1) |-> IF i < k THEN w[i] ELSE w[i + 1]]

\* inventory.find(i => i.type === t): its count, or -1 when there is no slot
countOf(inv, t) ==
    IF \E i \in 1..Len(inv) : inv[i].type = t
    THEN inv[CHOOSE i \in 1..Len(inv) :
               inv[i].type = t /\ \A j \in 1..(i - 1) : inv[j].type # t].count
    ELSE -1

\* fault injection: a count update that moves two units instead of one
creditDouble(inv, t, d) ==
    [i \in 1..Len(inv) |->
        IF inv[i].type = t THEN [inv[i] EXCEPT !.count = @ + 2 * d] ELSE inv[i]]

\* inventory.map(i => i.type === t ? { ...i, count: i.count + d } : i)
credit(inv, t, d) ==
    [i \in 1..Len(inv) |->
        IF inv[i].type = t THEN [inv[i] EXCEPT !.count = @ + d] ELSE inv[i]]

Item(t, n) == [type |-> t, count |-> n]

initialInventory(v) ==
    IF v = "full"
    THEN << Item("grass", 64), Item("dirt", 64), Item("stone", 64),
            Item("wood", 64), Item("planks", 0), Item("cobblestone", 10) >>
    ELSE << Item("grass", 64), Item("dirt", 64), Item("stone", 64),
            Item("wood", 64) >>

Cam(cx, cy, cz) == [x |-> cx * Unit, y |-> cy * Unit, z |-> cz * Unit,
                    pitch |-> 0, yaw |-> 0]

initialCamera(v) ==
    CASE v = "flat2d" -> Cam(0, 0, 0)      \* the 2D page has no camera
      [] v = "drag"   -> Cam(8, 5, 8)
      [] OTHER        -> Cam(15, 5, 15)

\* the camera generateVillage resets to
villageCamera(v) == IF v = "full" THEN Cam(15, 5, 20) ELSE Cam(15, 5, 22)

Bot(n, bx, bz, tx, tz) == [name |-> n, x |-> bx * Unit, y |-> 2 * Unit,
                           z |-> bz * Unit, targetX |-> tx * Unit,
                           targetZ |-> tz * Unit]

botList == << Bot("Steve123", 10, 10, 12, 8), Bot("Alex_Pro", 12, 8, 18, 15),
              Bot("Creeper99", 18, 15, 8, 12), Bot("Diamond_Miner", 8, 12, 15, 10) >>

\* setChatMessages(prev => [...prev.slice(-20), message])
addChatMessage(msgs, author, text) ==
    LET kept == IF Len(msgs) > 20 THEN SubSeq(msgs, Len(msgs) - 19, Len(msgs))
                ELSE msgs
    IN Append(kept, [author |-> author, text |-> text])

\* nothing has been rendered yet
noRender == [call |-> "none", args |-> <<>>, out |-> <<>>]

Playable == gameMode \notin {"menu", "servers"}

\* the input effect has its listeners and the motion timer registered
Listening ==
    /\ variant \in FirstPerson
    /\ Playable
    /\ (variant = "full" => ~showInventory)

\* modes offered by the main menu
menuModes(v) ==
    IF v \in Capture THEN {"creative", "survival", "hardcore", "adventure"}
    ELSE {"creative", "survival", "hardcore", "adventure", "pvp"}

-----------------------------------------------------------------------------
(* Initial state: the component right after mounting *)

Init ==
    /\ variant \in Variants
    /\ gameMode = "menu"
    /\ selectedServer = "null"
    /\ world = <<>>
    /\ inventory = initialInventory(variant)
    /\ selectedBlock = "grass"
    /\ health = 100
    /\ hunger = 200
    /\ showInventory = FALSE
    /\ showChat = FALSE
    /\ camera = initialCamera(variant)
    /\ handAnimation = 0
    /\ isSwinging = FALSE
    /\ pointerLocked = FALSE
    /\ lockElement = FALSE
    /\ lockPending = FALSE
    /\ mouseDown = FALSE
    /\ keysPressed = {}
    /\ bots = <<>>
    /\ chatMessages = <<>>
    /\ toast = "none"
    /\ event = Ev("mount")
    /\ edits = 0
    /\ render = noRender
    /\ held = {}

-----------------------------------------------------------------------------
(* Mode changes and the world-generation effect *)

uiVars == <<showInventory, showChat>>

swingVars == <<handAnimation, isSwinging>>

lockVars == <<pointerLocked, lockElement, lockPending>>

editVars == <<world, inventory, edits>>

botVars == <<bots, chatMessages>>

\* the world-generation effect, run when gameMode or selectedServer changed
\* to a playable mode: new world, and for the village a camera reset and
\* (on the "full" page) initializeBots
generationEffect(server, seed) ==
    IF variant \in Capture /\ server = "funtime"
    THEN /\ world' = generateVillage
         /\ camera' = villageCamera(variant)
         /\ IF variant = "full"
            THEN /\ bots' = botList
                 /\ chatMessages' = addChatMessage(chatMessages, "server", "welcome")
            ELSE UNCHANGED botVars
    ELSE /\ world' = CASE variant = "flat2d" -> generateWorld2D(seed)
                       [] variant = "drag"   -> generateWorld3D(seed)
                       [] OTHER              -> generateFlatWorld
         /\ UNCHANGED <<camera, bots, chatMessages>>

startGame(mode, seed) ==
    /\ gameMode = "menu"
    /\ gameMode' = mode
    /\ health' = 100
    /\ hunger' = 200
    /\ toast' = "started"
    /\ event' = Ev("startGame")
    /\ generationEffect(selectedServer, seed)
    /\ UNCHANGED <<held, render, variant, selectedServer, inventory, selectedBlock, uiVars,
                   swingVars, lockVars, mouseDown, keysPressed, edits>>

\* the "multiplayer" button of the main menu
openServers ==
    /\ variant \in Capture
    /\ gameMode = "menu"
    /\ gameMode' = "servers"
    /\ toast' = "none"
    /\ event' = Ev("openServers")
    /\ UNCHANGED <<held, render, variant, selectedServer, editVars, selectedBlock, health,
                   hunger, uiVars, camera, swingVars, lockVars, mouseDown,
                   keysPressed, botVars>>

\* the "back" button of the server list
closeServers ==
    /\ variant \in Capture
    /\ gameMode = "servers"
    /\ gameMode' = "menu"
    /\ toast' = "none"
    /\ event' = Ev("closeServers")
    /\ UNCHANGED <<held, render, variant, selectedServer, editVars, selectedBlock, health,
                   hunger, uiVars, camera, swingVars, lockVars, mouseDown,
                   keysPressed, botVars>>

joinServer(server) ==
    /\ variant \in Capture
    /\ gameMode = "servers"
    /\ selectedServer' = server
    /\ gameMode' = "creative"
    /\ toast' = "connecting"
    /\ event' = Ev("joinServer")
    /\ generationEffect(server, 0)
    /\ UNCHANGED <<held, render, variant, inventory, selectedBlock, health, hunger, uiVars,
                   swingVars, lockVars, mouseDown, keysPressed, edits>>

\* document.exitPointerLock(): the new values of lockElement and lockPending
exitPointerLock ==
    /\ lockElement' = FALSE
    /\ lockPending' = (lockPending \/ lockElement)

\* canvasRef.current?.requestPointerLock(), granted by the browser
requestPointerLock ==
    /\ lockElement' = TRUE
    /\ lockPending' = (lockPending \/ ~lockElement)

\* the Home button of the game screen
goHome ==
    /\ Playable
    /\ gameMode' = "menu"
    /\ IF variant \in Capture
       THEN exitPointerLock
       ELSE UNCHANGED <<lockElement, lockPending>>
    /\ toast' = "none"
    /\ event' = Ev("home")
    /\ UNCHANGED <<held, render, variant, selectedServer, editVars, selectedBlock, health,
                   hunger, uiVars, camera, swingVars, pointerLocked, mouseDown,
                   keysPressed, botVars>>

-----------------------------------------------------------------------------
(* Pointer capture *)

\* the game screen and its canvas leave the document: the browser ends a
\* pointer lock whose target was removed
canvasUnmount ==
    /\ lockElement' = FALSE
    /\ lockPending' = (lockPending \/ lockElement)

\* the "start" button of the click-to-play overlay
overlayStart ==
    /\ variant \in Capture
    /\ Playable
    /\ ~pointerLocked
    /\ (variant = "full" => ~showInventory)
    /\ requestPointerLock
    /\ toast' = "none"
    /\ event' = Ev("overlayStart")
    /\ UNCHANGED <<held, render, variant, gameMode, selectedServer, editVars, selectedBlock,
                   health, hunger, uiVars, camera, swingVars, pointerLocked,
                   mouseDown, keysPressed, botVars>>

\* the browser delivers the queued pointerlockchange event; the page's
\* handler runs only while the input effect has it registered
handlePointerLockChange ==
    /\ lockPending
    /\ lockPending' = FALSE
    /\ pointerLocked' = IF Listening /\ variant \in Capture
                        THEN lockElement ELSE pointerLocked
    /\ toast' = "none"
    /\ event' = Ev("pointerlockchange")
    /\ UNCHANGED <<held, render, variant, gameMode, selectedServer, editVars, selectedBlock,
                   health, hunger, uiVars, camera, swingVars, lockElement,
                   mouseDown, keysPressed, botVars>>

-----------------------------------------------------------------------------
(* Hunger and the game-over effect *)

\* modes in which the hunger timer runs
hungerModes == {"survival", "hardcore", "adventure"}

\* fault injection: a hunger timer that lowers health on every tick
hungerIntervalSteep ==
    /\ gameMode \in hungerModes
    /\ hunger' = Max(0, hunger - 1)
    /\ health' = Max(0, health - 1)
    /\ event' = Ev("hunger")
    /\ IF health' = 0 /\ gameMode = "hardcore"
       THEN /\ gameMode' = "menu"
            /\ toast' = "gameover"
            /\ IF variant \in Capture
               THEN canvasUnmount
               ELSE UNCHANGED <<lockElement, lockPending>>
       ELSE /\ toast' = "none"
            /\ UNCHANGED <<gameMode, lockElement, lockPending>>
    /\ UNCHANGED <<held, render, variant, selectedServer, editVars, selectedBlock, uiVars,
                   camera, swingVars, pointerLocked, mouseDown, keysPressed,
                   botVars>>

\* fault injection: a hunger timer after which no game-over effect runs
hungerIntervalSpared ==
    /\ gameMode \in hungerModes
    /\ hunger' = Max(0, hunger - 1)
    /\ health' = IF hunger' = 0 THEN Max(0, health - 1) ELSE health
    /\ event' = Ev("hunger")
    /\ toast' = "none"
    /\ UNCHANGED <<held, render, variant, gameMode, lockElement, lockPending,
                   selectedServer, editVars, selectedBlock, uiVars,
                   camera, swingVars, pointerLocked, mouseDown, keysPressed,
                   botVars>>

\* one firing of the 3000 ms hunger timer (hunger in halves), followed by
\* the game-over effect that runs when health has changed
hungerInterval ==
    /\ gameMode \in hungerModes
    /\ hunger' = Max(0, hunger - 1)
    /\ health' = IF hunger' = 0 THEN Max(0, health - 1) ELSE health
    /\ event' = Ev("hunger")
    /\ IF health' = 0 /\ gameMode = "hardcore"
       THEN /\ gameMode' = "menu"
            /\ toast' = "gameover"
            /\ IF variant \in Capture
               THEN canvasUnmount
               ELSE UNCHANGED <<lockElement, lockPending>>
       ELSE /\ toast' = "none"
            /\ UNCHANGED <<gameMode, lockElement, lockPending>>
    /\ UNCHANGED <<held, render, variant, selectedServer, editVars, selectedBlock, uiVars,
                   camera, swingVars, pointerLocked, mouseDown, keysPressed,
                   botVars>>

-----------------------------------------------------------------------------
(* Companions: the two timers registered while bots.length > 0 *)

\* speed = 0.05 of a companion per motion tick, in fixed point
botSpeed == 5

RECURSIVE sqrtBetween(_, _, _)
\* the largest r in lo..hi with r * r <= n
sqrtBetween(lo, hi, n) ==
    IF lo >= hi THEN lo
    ELSE LET mid == (lo + hi + 1) \div 2
         IN IF mid * mid <= n THEN sqrtBetween(mid, hi, n)
            ELSE sqrtBetween(lo, mid - 1, n)

\* Math.sqrt of a squared distance inside the world, rounded down
sqrt(n) == sqrtBetween(0, 2 * WORLD_SIZE * Unit, n)

\* (d / distance) * speed, rounded to the nearest fixed-point value
stepToward(d, distance) == (2 * d * botSpeed + distance) \div (2 * distance)

\* values Math.random() * (WORLD_SIZE - 5) + 2.5 is drawn from
botTargets == {(5 * Unit) \div 2, (WORLD_SIZE * Unit) \div 2,
               ((2 * WORLD_SIZE - 5) * Unit) \div 2 - 1}

\* the companion has arrived: distance < 0.5
arrived(bot) ==
    LET dx == bot.targetX - bot.x
        dz == bot.targetZ - bot.z
    IN 4 * (dx * dx + dz * dz) < Unit * Unit

\* fault injection: a companion that jumps past its target
moveBotPast(bot, target) ==
    LET dx == bot.targetX - bot.x
        dz == bot.targetZ - bot.z
    IN IF arrived(bot)
       THEN [bot EXCEPT !.targetX = target[1], !.targetZ = target[2]]
       ELSE [bot EXCEPT !.x = @ + 2 * dx, !.z = @ + 2 * dz]

\* the body of prevBots.map: a new target on arrival, else one step
moveBot(bot, target) ==
    LET dx == bot.targetX - bot.x
        dz == bot.targetZ - bot.z
        distance == sqrt(dx * dx + dz * dz)
    IN IF arrived(bot)
       THEN [bot EXCEPT !.targetX = target[1], !.targetZ = target[2]]
       ELSE [bot EXCEPT !.x = @ + stepToward(dx, distance),
                        !.z = @ + stepToward(dz, distance)]

\* one firing of the 50 ms companion-motion timer
botMoveInterval ==
    /\ variant = "full"
    /\ Len(bots) > 0
    /\ \E targets \in [{i \in 1..Len(bots) : arrived(bots[i])} ->
                          botTargets \X botTargets] :
          bots' = [i \in 1..Len(bots) |->
                     moveBot(bots[i], IF arrived(bots[i]) THEN targets[i]
                                      ELSE <<0, 0>>)]
    /\ toast' = "none"
    /\ event' = Ev("botMove")
    /\ UNCHANGED <<held, render, variant, gameMode, selectedServer, editVars, selectedBlock,
                   health, hunger, uiVars, camera, swingVars, lockVars,
                   mouseDown, keysPressed, chatMessages>>

\* one firing of the 8000 ms companion-chat timer: with Math.random() > 0.7
\* a random companion posts a random line
botChatInterval ==
    /\ variant = "full"
    /\ Len(bots) > 0
    /\ \E post \in BOOLEAN, b \in 1..Len(bots) :
          chatMessages' = IF post
                          THEN addChatMessage(chatMessages, bots[b].name, "line")
                          ELSE chatMessages
    /\ toast' = "none"
    /\ event' = Ev("botChat")
    /\ UNCHANGED <<held, render, variant, gameMode, selectedServer, editVars, selectedBlock,
                   health, hunger, uiVars, camera, swingVars, lockVars,
                   mouseDown, keysPressed, bots>>

-----------------------------------------------------------------------------
(* Camera and motion *)

clampPitch(p) == Max(-1, Min(1, p))

\* handleMouseMove of the pointer-capture pages (movementX, movementY)
\* and of the mouse-drag page (deltaX, deltaY since the last position)
handleMouseMove(dx, dy) ==
    /\ Listening
    /\ camera' =
         IF variant \in Capture
         THEN IF pointerLocked
              THEN [camera EXCEPT !.yaw = @ + dx, !.pitch = clampPitch(@ + dy)]
              ELSE camera
         ELSE IF mouseDown
              THEN [camera EXCEPT !.yaw = @ + dx, !.pitch = clampPitch(@ - dy)]
              ELSE camera
    /\ camera'.yaw \in 0..MaxYaw
    /\ toast' = "none"
    /\ event' = Ev("mousemove")
    /\ UNCHANGED <<held, render, variant, gameMode, selectedServer, editVars, selectedBlock,
                   health, hunger, uiVars, swingVars, lockVars, mouseDown,
                   keysPressed, botVars>>

\* window mousedown / mouseup listeners of the mouse-drag page
handleMouseDown ==
    /\ variant = "drag"
    /\ Listening
    /\ mouseDown' = TRUE
    /\ toast' = "none"
    /\ event' = Ev("mousedown")
    /\ UNCHANGED <<held, render, variant, gameMode, selectedServer, editVars, selectedBlock,
                   health, hunger, uiVars, camera, swingVars, lockVars,
                   keysPressed, botVars>>

handleMouseUp ==
    /\ variant = "drag"
    /\ Listening
    /\ mouseDown' = FALSE
    /\ toast' = "none"
    /\ event' = Ev("mouseup")
    /\ UNCHANGED <<held, render, variant, gameMode, selectedServer, editVars, selectedBlock,
                   health, hunger, uiVars, camera, swingVars, lockVars,
                   keysPressed, botVars>>

\* per-tick speed of each page, in fixed point
speed(v) == IF v = "lock" THEN 15 ELSE 20

\* lower and upper end of the vertical band
minY(v) == IF v = "drag" THEN 1 ELSE 2

maxY(v) == IF v = "drag" THEN 15 ELSE 20

worldSize(v) == IF v = "drag" THEN DRAG_WORLD_SIZE ELSE WORLD_SIZE

\* the (x, z) displacement of one tick for key k, in units of speed
keyStep(v, k, yaw) ==
    LET fwd == CASE v = "full" -> <<Sin(yaw), -Cos(yaw)>>
                 [] v = "lock" -> <<-Sin(yaw), -Cos(yaw)>>
                 [] OTHER      -> <<Sin(yaw), Cos(yaw)>>
        right == IF v = "full" THEN <<Cos(yaw), Sin(yaw)>>
                 ELSE <<Cos(yaw), -Sin(yaw)>>
    IN CASE k = "w" -> fwd
         [] k = "s" -> <<-fwd[1], -fwd[2]>>
         [] k = "a" -> <<-right[1], -right[2]>>
         [] k = "d" -> right
         [] OTHER   -> <<0, 0>>

has(keys, k) == IF k \in keys THEN 1 ELSE 0

\* fault injection: a motion tick without the three clamps
moveCameraFree(v, cam, keys) ==
    [cam EXCEPT
       !.x = @ + (has(keys, "d") - has(keys, "a")) * keyStep(v, "d", cam.yaw)[1] * speed(v)
               + (has(keys, "w") - has(keys, "s")) * keyStep(v, "w", cam.yaw)[1] * speed(v),
       !.z = @ + (has(keys, "d") - has(keys, "a")) * keyStep(v, "d", cam.yaw)[2] * speed(v)
               + (has(keys, "w") - has(keys, "s")) * keyStep(v, "w", cam.yaw)[2] * speed(v),
       !.y = @ + (has(keys, " ") - has(keys, "shift")) * speed(v)]

\* the camera after one motion tick with the key-state set `keys`
moveCamera(v, cam, keys) ==
    LET step(k) == keyStep(v, k, cam.yaw)
        sumX == has(keys, "w") * step("w")[1] + has(keys, "s") * step("s")[1]
                + has(keys, "a") * step("a")[1] + has(keys, "d") * step("d")[1]
        sumZ == has(keys, "w") * step("w")[2] + has(keys, "s") * step("s")[2]
                + has(keys, "a") * step("a")[2] + has(keys, "d") * step("d")[2]
        newX == cam.x + sumX * speed(v)
        newZ == cam.z + sumZ * speed(v)
        newY == cam.y + has(keys, " ") * speed(v) - has(keys, "shift") * speed(v)
    IN [cam EXCEPT
          !.x = Max(0, Min((worldSize(v) - 1) * Unit, newX)),
          !.z = Max(0, Min((worldSize(v) - 1) * Unit, newZ)),
          !.y = Max(minY(v) * Unit, Min(maxY(v) * Unit, newY))]

\* fault injection: a motion timer that ignores the open overlays
moveIntervalAlways ==
    /\ Listening
    /\ camera' = moveCamera(variant, camera, keysPressed)
    /\ toast' = "none"
    /\ event' = Ev("tick")
    /\ UNCHANGED <<held, render, variant, gameMode, selectedServer, editVars, selectedBlock,
                   health, hunger, uiVars, swingVars, lockVars, mouseDown,
                   keysPressed, botVars>>

\* one firing of the 16 ms motion timer
moveInterval ==
    /\ Listening
    /\ camera' = IF variant = "full" /\ (showChat \/ showInventory)
                 THEN camera
                 ELSE moveCamera(variant, camera, keysPressed)
    /\ toast' = "none"
    /\ event' = Ev("tick")
    /\ UNCHANGED <<held, render, variant, gameMode, selectedServer, editVars, selectedBlock,
                   health, hunger, uiVars, swingVars, lockVars, mouseDown,
                   keysPressed, botVars>>

-----------------------------------------------------------------------------
(* Keyboard *)

\* largest number of keys held in the key-state set
MaxHeld == 1

Digits == {"1", "2", "3", "4"}

\* the keys the motion tick reads
MotionKeys == {"w", "a", "s", "d", " ", "shift"}

digitIndex(k) == CASE k = "1" -> 1 [] k = "2" -> 2 [] k = "3" -> 3 [] OTHER -> 4

\* sendChatMessage, `typed` telling whether chatInput.trim() is non-empty
sendChatMessage(typed) ==
    IF typed
    THEN /\ chatMessages' = addChatMessage(chatMessages, "player", "text")
         /\ showChat' = FALSE
    ELSE UNCHANGED <<chatMessages, showChat>>

\* the quick-select part of handleKeyDown
quickSelect(k) ==
    IF k \in Digits /\ digitIndex(k) <= Len(inventory)
    THEN /\ selectedBlock' = inventory[digitIndex(k)].type
         /\ toast' = "selected"
    ELSE /\ UNCHANGED selectedBlock
         /\ toast' = "none"

\* window keydown listener of the first-person pages
handleKeyDown(k, typed) ==
    /\ Listening
    /\ event' = [name |-> "keydown", at |-> <<k>>]
    /\ CASE variant = "drag" ->
              /\ keysPressed' = keysPressed \cup {k}
              /\ toast' = "none"
              /\ UNCHANGED <<showInventory, showChat, selectedBlock, lockElement,
                             lockPending, chatMessages>>
         [] variant = "lock" ->
              /\ keysPressed' = keysPressed \cup {k}
              /\ showInventory' = IF k = "e" THEN ~showInventory ELSE showInventory
              /\ quickSelect(k)
              /\ IF k = "escape" THEN exitPointerLock
                 ELSE UNCHANGED <<lockElement, lockPending>>
              /\ UNCHANGED <<showChat, chatMessages>>
         [] OTHER ->
              IF k = "t" /\ ~showChat
              THEN /\ showChat' = TRUE
                   /\ exitPointerLock
                   /\ toast' = "none"
                   /\ UNCHANGED <<keysPressed, showInventory, selectedBlock,
                                  chatMessages>>
              ELSE IF showChat /\ k = "enter"
              THEN /\ sendChatMessage(typed)
                   /\ toast' = "none"
                   /\ UNCHANGED <<keysPressed, showInventory, selectedBlock,
                                  lockElement, lockPending>>
              ELSE IF showChat /\ k = "escape"
              THEN /\ showChat' = FALSE
                   /\ toast' = "none"
                   /\ UNCHANGED <<keysPressed, showInventory, selectedBlock,
                                  lockElement, lockPending, chatMessages>>
              ELSE IF showChat
              THEN /\ toast' = "none"
                   /\ UNCHANGED <<keysPressed, showInventory, showChat,
                                  selectedBlock, lockElement, lockPending,
                                  chatMessages>>
              ELSE /\ keysPressed' = keysPressed \cup {k}
                   /\ showInventory' = IF k = "e" THEN ~showInventory
                                       ELSE IF k = "escape" THEN FALSE
                                       ELSE showInventory
                   /\ quickSelect(k)
                   /\ IF (k = "e" /\ ~showInventory)
                         \/ (k = "escape" /\ ~showInventory)
                      THEN exitPointerLock
                      ELSE UNCHANGED <<lockElement, lockPending>>
                   /\ UNCHANGED <<showChat, chatMessages>>
    /\ Cardinality(keysPressed') <= MaxHeld
    /\ held' = held \cup ({k} \cap MotionKeys)
    /\ UNCHANGED <<render, variant, gameMode, selectedServer, editVars, health, hunger,
                   camera, swingVars, pointerLocked, mouseDown, bots>>

\* window keyup listener of the first-person pages
handleKeyUp(k) ==
    /\ Listening
    /\ keysPressed' = keysPressed \ {k}
    /\ held' = held \ {k}
    /\ toast' = "none"
    /\ event' = [name |-> "keyup", at |-> <<k>>]
    /\ UNCHANGED <<render, variant, gameMode, selectedServer, editVars, selectedBlock,
                   health, hunger, uiVars, camera, swingVars, lockVars,
                   mouseDown, botVars>>

\* the user presses key k while window has no keydown listener (the input
\* effect is torn down): the event reaches no handler of the page
keyDownUnheard(k) ==
    /\ variant \in FirstPerson
    /\ ~Listening
    /\ held' = held \cup ({k} \cap MotionKeys)
    /\ Cardinality(held') <= MaxHeld
    /\ toast' = "none"
    /\ event' = [name |-> "keydownUnheard", at |-> <<k>>]
    /\ UNCHANGED <<render, variant, gameMode, selectedServer, editVars, selectedBlock,
                   health, hunger, uiVars, camera, swingVars, lockVars,
                   mouseDown, keysPressed, botVars>>

\* the user releases key k while window has no keyup listener
keyUpUnheard(k) ==
    /\ variant \in FirstPerson
    /\ ~Listening
    /\ held' = held \ {k}
    /\ toast' = "none"
    /\ event' = [name |-> "keyupUnheard", at |-> <<k>>]
    /\ UNCHANGED <<render, variant, gameMode, selectedServer, editVars, selectedBlock,
                   health, hunger, uiVars, camera, swingVars, lockVars,
                   mouseDown, keysPressed, botVars>>

\* the block types some inventory slot holds
slotTypes(inv) == {inv[i].type : i \in 1..Len(inv)}

\* a click on a slot button of the hotbar (pointer-capture pages)
selectHotbar(t) ==
    /\ variant \in Capture
    /\ Playable
    /\ IF variant = "lock"
       THEN t \in slotTypes(inventory)
       ELSE \E i \in 1..Min(4, Len(inventory)) : inventory[i].type = t
    /\ selectedBlock' = t
    /\ toast' = "selected"
    /\ event' = Ev("select")
    /\ UNCHANGED <<held, render, variant, gameMode, selectedServer, editVars, health, hunger,
                   uiVars, camera, swingVars, lockVars, mouseDown, keysPressed,
                   botVars>>

\* a click on a slot button of the inventory panel (2D and mouse-drag pages)
\* or of the inventory menu ("full" page): onSelectBlock
selectInPanel(t) ==
    /\ variant # "lock"
    /\ Playable
    /\ showInventory
    /\ t \in slotTypes(inventory)
    /\ selectedBlock' = t
    /\ toast' = "none"
    /\ event' = Ev("select")
    /\ UNCHANGED <<held, render, variant, gameMode, selectedServer, editVars, health, hunger,
                   uiVars, camera, swingVars, lockVars, mouseDown, keysPressed,
                   botVars>>

\* the inventory button of the 2D and mouse-drag pages
inventoryButton ==
    /\ variant \in {"flat2d", "drag"}
    /\ Playable
    /\ showInventory' = ~showInventory
    /\ toast' = "none"
    /\ event' = Ev("inventoryButton")
    /\ UNCHANGED <<held, render, variant, gameMode, selectedServer, editVars, selectedBlock,
                   health, hunger, showChat, camera, swingVars, lockVars,
                   mouseDown, keysPressed, botVars>>

\* the close button of the inventory menu of the "full" page: onClose
closeInventory ==
    /\ variant = "full"
    /\ Playable
    /\ showInventory
    /\ showInventory' = FALSE
    /\ toast' = "none"
    /\ event' = Ev("closeInventory")
    /\ UNCHANGED <<held, render, variant, gameMode, selectedServer, editVars, selectedBlock,
                   health, hunger, showChat, camera, swingVars, lockVars,
                   mouseDown, keysPressed, botVars>>

-----------------------------------------------------------------------------
(* Crafting *)

Recipe(r, n, ings) == [result |-> r, resultCount |-> n, ingredients |-> ings]

\* the recipes the inventory menu offers
recipes == << Recipe("planks", 4, << Item("wood", 1) >>),
              Recipe("stone", 1, << Item("cobblestone", 1) >>) >>

\* newInventory.findIndex(i => i.type === t), 0 when there is none
slotIndex(inv, t) ==
    LET hits == {i \in 1..Len(inv) : inv[i].type = t}
    IN IF hits = {} THEN 0 ELSE CHOOSE i \in hits : \A j \in hits : i <= j

\* fault injection: a test that finds every recipe craftable
canCraftAlways(inv, recipe) == TRUE

\* recipe.ingredients.every(ingredient => item && item.count >= ingredient.count)
canCraft(inv, recipe) ==
    \A n \in 1..Len(recipe.ingredients) :
        countOf(inv, recipe.ingredients[n].type) >= recipe.ingredients[n].count

RECURSIVE takeIngredients(_, _, _)

\* the forEach over the first n ingredients: each is taken from the first
\* slot of its type
takeIngredients(inv, ings, n) ==
    IF n = 0 THEN inv
    ELSE LET prev == takeIngredients(inv, ings, n - 1)
             itemIndex == slotIndex(prev, ings[n].type)
         IN IF itemIndex # 0
            THEN [prev EXCEPT ![itemIndex].count = @ - ings[n].count]
            ELSE prev

\* fault injection: a craft that yields one unit whatever the recipe says
craftSingle(inv, recipe) ==
    LET newInventory == takeIngredients(inv, recipe.ingredients, Len(recipe.ingredients))
        resultIndex == slotIndex(newInventory, recipe.result)
    IN IF resultIndex # 0
       THEN [newInventory EXCEPT ![resultIndex].count = @ + 1]
       ELSE newInventory

\* the updater handleCraft passes to setInventory
craft(inv, recipe) ==
    LET newInventory == takeIngredients(inv, recipe.ingredients, Len(recipe.ingredients))
        resultIndex == slotIndex(newInventory, recipe.result)
    IN IF resultIndex # 0
       THEN [newInventory EXCEPT ![resultIndex].count = @ + recipe.resultCount]
       ELSE newInventory

\* a click on the card of recipe number r of the inventory menu: onCraft,
\* called when the menu finds the recipe craftable, and handleCraft
handleCraft(r) ==
    /\ variant = "full"
    /\ Playable
    /\ showInventory
    /\ IF canCraft(inventory, recipes[r])
       THEN /\ inventory' = craft(inventory, recipes[r])
            /\ toast' = "crafted"
       ELSE /\ toast' = "none"
            /\ UNCHANGED inventory
    /\ event' = [name |-> "craft", at |-> <<r>>]
    /\ UNCHANGED <<held, render, variant, gameMode, selectedServer, world, edits,
                   selectedBlock, health, hunger, uiVars, camera, swingVars,
                   lockVars, mouseDown, keysPressed, botVars>>

-----------------------------------------------------------------------------
(* Targeting and editing *)

\* the look vector { sin(yaw) cos(pitch), -sin(pitch), cos(yaw) cos(pitch) }
forward(cam) == [x |-> Sin(cam.yaw) * Cos(cam.pitch),
                 y |-> -Sin(cam.pitch),
                 z |-> Cos(cam.yaw) * Cos(cam.pitch)]

\* the rounded cell at `halves` half-blocks along the look vector
cellAt(cam, halves) ==
    [x |-> Round(cam.x + (forward(cam).x * halves * Unit) \div 2),
     y |-> Round(cam.y + (forward(cam).y * halves * Unit) \div 2),
     z |-> Round(cam.z + (forward(cam).z * halves * Unit) \div 2)]

\* fault injection: a place target at distance 2 instead of 3
placeCellNear(cam) == cellAt(cam, 4)

\* placeX, placeY, placeZ of the pointer-capture pages: distance 3
placeCell(cam) == cellAt(cam, 6)

\* placeX, placeY, placeZ of the mouse-drag page: 2 blocks ahead at camera height
placeCellDrag(cam) ==
    [x |-> Round(cam.x + Sin(cam.yaw) * 2 * Unit),
     y |-> Round(cam.y),
     z |-> Round(cam.z + Cos(cam.yaw) * 2 * Unit)]

\* fault injection: a remove ray that reaches 6 blocks instead of 5
rayHalvesLong == 2..12

\* the values dist takes in `for (dist = 1; dist <= 5; dist += 0.5)`, in halves
rayHalves == 2..10

\* fault injection: the last sampled distance whose cell holds a block
lastHit(w, cam) ==
    LET hits == {h \in rayHalves :
                    findIndex(w, cellAt(cam, h).x, cellAt(cam, h).y, cellAt(cam, h).z) # 0}
    IN IF hits = {} THEN 0 ELSE CHOOSE h \in hits : \A g \in hits : h >= g

\* the first sampled distance whose cell holds a block, 0 when none does
firstHit(w, cam) ==
    LET hits == {h \in rayHalves :
                    findIndex(w, cellAt(cam, h).x, cellAt(cam, h).y, cellAt(cam, h).z) # 0}
    IN IF hits = {} THEN 0 ELSE CHOOSE h \in hits : \A g \in hits : h <= g

\* fault injection: a swing start that keeps the running phase
startSwingKeepPhase == isSwinging' = TRUE /\ UNCHANGED handAnimation

\* setIsSwinging(true); setHandAnimation(0)
startSwing == isSwinging' = TRUE /\ handAnimation' = 0

\* fault injection: a swing timer that restarts the phase instead of ending
swingIntervalLoop ==
    /\ variant \in FirstPerson
    /\ isSwinging
    /\ handAnimation' = (IF handAnimation >= 32 THEN 0 ELSE handAnimation + 3)
    /\ UNCHANGED isSwinging
    /\ toast' = "none"
    /\ event' = Ev("swing")
    /\ UNCHANGED <<held, render, variant, gameMode, selectedServer, editVars, selectedBlock,
                   health, hunger, uiVars, camera, lockVars, mouseDown,
                   keysPressed, botVars>>

\* one firing of the 16 ms swing timer, registered while isSwinging:
\* prev >= Math.PI ends the swing, otherwise the phase grows by 0.3
swingInterval ==
    /\ variant \in FirstPerson
    /\ isSwinging
    /\ IF handAnimation >= 32
       THEN isSwinging' = FALSE /\ handAnimation' = 0
       ELSE handAnimation' = handAnimation + 3 /\ UNCHANGED isSwinging
    /\ toast' = "none"
    /\ event' = Ev("swing")
    /\ UNCHANGED <<held, render, variant, gameMode, selectedServer, editVars, selectedBlock,
                   health, hunger, uiVars, camera, lockVars, mouseDown,
                   keysPressed, botVars>>

\* setWorld([...world, block]); setInventory(... count - 1 ...); toast
placeBlock(cell) ==
    /\ world' = Append(world, Block(selectedBlock, cell.x, cell.y, cell.z))
    /\ inventory' = credit(inventory, selectedBlock, -1)
    /\ edits' = edits + 1
    /\ toast' = "placed"

\* setWorld(world.filter(...)); setInventory(... count + 1 ...); toast
removeBlock(k) ==
    /\ world' = removeAt(world, k)
    /\ inventory' = credit(inventory, world[k].type, 1)
    /\ edits' = edits + 1
    /\ toast' = "removed"

\* handleCanvasClick of the 2D page, also bound to the context menu
\* (button 2); (clickX, clickY) is the clicked grid cell
handleCanvasClick2D(clickX, clickY, button) ==
    /\ variant = "flat2d"
    /\ Playable
    /\ event' = [name |-> IF button = 0 THEN "click" ELSE "contextmenu",
                 at |-> <<clickX, clickY>>]
    /\ LET existingBlockIndex == findIndex2D(world, clickX, clickY)
       IN IF button = 0
          THEN IF existingBlockIndex = 0
               THEN IF countOf(inventory, selectedBlock) > 0
                    THEN placeBlock([x |-> clickX, y |-> clickY, z |-> 0])
                    ELSE toast' = "insufficient" /\ UNCHANGED editVars
               ELSE toast' = "none" /\ UNCHANGED editVars
          ELSE IF existingBlockIndex # 0
               THEN removeBlock(existingBlockIndex)
               ELSE toast' = "none" /\ UNCHANGED editVars
    /\ UNCHANGED <<held, render, variant, gameMode, selectedServer, selectedBlock, health,
                   hunger, uiVars, camera, swingVars, lockVars, mouseDown,
                   keysPressed, botVars>>

\* handleCanvasClick of the first-person pages (primary button)
handleCanvasClick ==
    /\ variant \in FirstPerson
    /\ Playable
    /\ event' = Ev("click")
    /\ IF variant \in Capture /\ ~pointerLocked
       THEN /\ requestPointerLock
            /\ toast' = "none"
            /\ UNCHANGED <<editVars, swingVars>>
       ELSE /\ startSwing
            /\ UNCHANGED <<lockElement, lockPending>>
            /\ IF countOf(inventory, selectedBlock) > 0
               THEN IF variant = "drag"
                    THEN placeBlock(placeCellDrag(camera))
                    ELSE IF ~exists(world, placeCell(camera).x,
                                    placeCell(camera).y, placeCell(camera).z)
                         THEN placeBlock(placeCell(camera))
                         ELSE toast' = "none" /\ UNCHANGED editVars
               ELSE /\ toast' = IF variant = "drag" THEN "none" ELSE "insufficient"
                    /\ UNCHANGED editVars
    /\ UNCHANGED <<held, render, variant, gameMode, selectedServer, selectedBlock, health,
                   hunger, uiVars, camera, pointerLocked, mouseDown,
                   keysPressed, botVars>>

\* fault injection: a context-menu handler without the capture test
handleContextMenuUngated ==
    /\ variant \in Capture
    /\ Playable
    /\ event' = Ev("contextmenu")
    /\ LET hit == firstHit(world, camera)
       IN IF hit # 0
          THEN /\ removeBlock(findIndex(world, cellAt(camera, hit).x,
                                        cellAt(camera, hit).y, cellAt(camera, hit).z))
               /\ startSwing
          ELSE /\ toast' = "none"
               /\ UNCHANGED <<editVars, swingVars>>
    /\ UNCHANGED <<held, render, variant, gameMode, selectedServer, selectedBlock, health,
                   hunger, uiVars, camera, lockVars, mouseDown, keysPressed,
                   botVars>>

\* handleContextMenu of the pointer-capture pages
handleContextMenu ==
    /\ variant \in Capture
    /\ Playable
    /\ event' = Ev("contextmenu")
    /\ LET hit == IF pointerLocked THEN firstHit(world, camera) ELSE 0
       IN IF hit # 0
          THEN /\ removeBlock(findIndex(world, cellAt(camera, hit).x,
                                        cellAt(camera, hit).y, cellAt(camera, hit).z))
               /\ startSwing
          ELSE /\ toast' = "none"
               /\ UNCHANGED <<editVars, swingVars>>
    /\ UNCHANGED <<held, render, variant, gameMode, selectedServer, selectedBlock, health,
                   hunger, uiVars, camera, lockVars, mouseDown, keysPressed,
                   botVars>>

-----------------------------------------------------------------------------
(* Rendering *)

\* canvas.width and canvas.height (window.innerWidth, window.innerHeight)
CanvasWidth == 800

CanvasHeight == 600

\* const fov = 500
fov == 500

\* RENDER_DISTANCE of the mouse-drag page
DRAG_RENDER_DISTANCE == 10

renderDistance(v) ==
    IF v = "drag" THEN DRAG_RENDER_DISTANCE ELSE RENDER_DISTANCE

\* { x: 0, y: 0, distance: -1 }
Hidden == [x |-> 0, y |-> 0, distance |-> -Unit]

\* fault injection: a projection without the offset to the canvas centre
project3DTo2DCorner(v, cam, x, y, z) ==
    LET dx == x - cam.x
        dy == y - cam.y
        dz == z - cam.z
        rotatedX == dx * Cos(cam.yaw) - dz * Sin(cam.yaw)
        rotatedZ == dx * Sin(cam.yaw) + dz * Cos(cam.yaw)
        rotatedY == dy * Cos(cam.pitch) + rotatedZ * Sin(cam.pitch)
        finalZ == -dy * Sin(cam.pitch) + rotatedZ * Cos(cam.pitch)
    IN IF 10 * finalZ <= Unit THEN Hidden
       ELSE [x |-> (rotatedX * fov * Unit) \div finalZ,
             y |-> (-rotatedY * fov * Unit) \div finalZ,
             distance |-> finalZ]

\* project3DTo2D of page v with camera cam: world coordinates and the
\* distance in fixed point, screen coordinates in hundredths of a pixel
project3DTo2D(v, cam, x, y, z) ==
    LET dx == x - cam.x
        dy == y - cam.y
        dz == z - cam.z
        cosPitch == Cos(cam.pitch)
        sinPitch == Sin(cam.pitch)
        cosYaw == Cos(cam.yaw)
        sinYaw == Sin(cam.yaw)
        rotatedX == dx * cosYaw - dz * sinYaw
        rotatedZ == dx * sinYaw + dz * cosYaw
        rotatedY == IF v = "drag" THEN dy * cosPitch - rotatedZ * sinPitch
                    ELSE dy * cosPitch + rotatedZ * sinPitch
        finalZ == IF v = "drag" THEN dy * sinPitch + rotatedZ * cosPitch
                  ELSE -dy * sinPitch + rotatedZ * cosPitch
        upY == IF v = "drag" THEN rotatedY ELSE -rotatedY
    IN IF 10 * finalZ <= Unit THEN Hidden
       ELSE [x |-> (rotatedX * fov * Unit) \div finalZ
                     + (CanvasWidth * Unit) \div 2,
             y |-> (upY * fov * Unit) \div finalZ
                     + (CanvasHeight * Unit) \div 2,
             distance |-> finalZ]

\* the eight corners of the cube of block (x, y, z), in fixed point
corners(x, y, z) ==
    << <<x * Unit, y * Unit, z * Unit>>,
       <<(x + 1) * Unit, y * Unit, z * Unit>>,
       <<(x + 1) * Unit, (y + 1) * Unit, z * Unit>>,
       <<x * Unit, (y + 1) * Unit, z * Unit>>,
       <<x * Unit, y * Unit, (z + 1) * Unit>>,
       <<(x + 1) * Unit, y * Unit, (z + 1) * Unit>>,
       <<(x + 1) * Unit, (y + 1) * Unit, (z + 1) * Unit>>,
       <<x * Unit, (y + 1) * Unit, (z + 1) * Unit>> >>

\* the corner indices of the six faces (counted from 1)
faces == << <<1, 2, 3, 4>>, <<5, 6, 7, 8>>, <<1, 2, 6, 5>>,
            <<3, 4, 8, 7>>, <<1, 4, 8, 5>>, <<2, 3, 7, 6>> >>

\* corners.map(([cx, cy, cz]) => project3DTo2D(cx, cy, cz))
projected(v, cam, x, y, z) ==
    [i \in 1..8 |-> project3DTo2D(v, cam, corners(x, y, z)[i][1],
                                  corners(x, y, z)[i][2], corners(x, y, z)[i][3])]

\* fault injection: a cube is skipped only when all its corners are hidden
drawCubeEvery(v, cam, x, y, z) ==
    LET p == projected(v, cam, x, y, z)
    IN IF \A i \in 1..8 : p[i].distance < 0 THEN <<>>
       ELSE [f \in 1..6 |-> [k \in 1..4 |-> <<p[faces[f][k]].x, p[faces[f][k]].y>>]]

\* drawCube: the polygons painted, one per face, none when
\* projected.some(p => p.distance < 0)
drawCube(v, cam, x, y, z) ==
    LET p == projected(v, cam, x, y, z)
    IN IF \E i \in 1..8 : p[i].distance < 0 THEN <<>>
       ELSE [f \in 1..6 |-> [k \in 1..4 |-> <<p[faces[f][k]].x, p[faces[f][k]].y>>]]

\* dx * dx + dz * dz of a block, in fixed point; Math.sqrt is increasing,
\* so distances compare as their squares do
distance2(b, cam) ==
    (b.x * Unit - cam.x) * (b.x * Unit - cam.x)
    + (b.z * Unit - cam.z) * (b.z * Unit - cam.z)

\* the filter of drawWorld: Math.sqrt(dx * dx + dz * dz) < RENDER_DISTANCE
filterNear(v, w, cam) ==
    SelectSeq(w, LAMBDA b : distance2(b, cam)
                              < renderDistance(v) * Unit * renderDistance(v) * Unit)

\* the squared distance of every element of s
distances(s, cam) == [i \in 1..Len(s) |-> distance2(s[i], cam)]

\* the position each element gets in a stable sort by descending key
ranksFar(key) ==
    [i \in DOMAIN key |->
       Cardinality({j \in DOMAIN key : key[j] > key[i]})
       + Cardinality({j \in DOMAIN key : j < i /\ key[j] = key[i]}) + 1]

\* the elements of s, each at its position
arrange(s, rank) ==
    [k \in 1..Len(s) |-> s[CHOOSE i \in 1..Len(s) : rank[i] = k]]

\* fault injection: a sort that puts the nearest block first
sortNearFirst(s, cam) ==
    CHOOSE r \in UNION {UNION {{arrange(t, rank) : rank \in {ranksFar(key)}} :
                                key \in {[i \in 1..Len(t) |->
                                            -distance2(t[i], cam)]}} :
                         t \in {s}} : TRUE

\* .sort((a, b) => distB - distA): the stable sort by descending distance
\* (the sequence, its keys and its ranks are each computed once)
sortFarFirst(s, cam) ==
    CHOOSE r \in UNION {UNION {{arrange(t, rank) : rank \in {ranksFar(key)}} :
                                key \in {distances(t, cam)}} :
                         t \in {s}} : TRUE

\* the blocks handed to drawCube by sortedBlocks.forEach, in order
drawnCubes(v, w, cam) ==
    SelectSeq(sortFarFirst(filterNear(v, w, cam), cam),
              LAMBDA b : b.type # "air")

\* the canvas is mounted and the draw effect schedules frames
Drawing ==
    /\ variant \in FirstPerson
    /\ Playable
    /\ (variant = "full" => ~showInventory)

\* one animation frame: drawWorld
drawWorld ==
    /\ Drawing
    /\ \E cubes \in {drawnCubes(variant, world, camera)} :
          render' = [call |-> "drawWorld",
                     args |-> <<>>,
                     out |-> [cubes |-> cubes,
                              painted |-> [i \in 1..Len(cubes) |->
                                             drawCube(variant, camera, cubes[i].x,
                                                      cubes[i].y, cubes[i].z) # <<>>],
                              bots |-> Len(bots)]]
    /\ toast' = "none"
    /\ event' = Ev("frame")
    /\ UNCHANGED <<held, variant, gameMode, selectedServer, editVars, selectedBlock,
                   health, hunger, uiVars, camera, swingVars, lockVars,
                   mouseDown, keysPressed, botVars>>

\* drawCube applied to the cube of cell (x, y, z)
drawCubeCall(x, y, z) ==
    /\ Drawing
    /\ render' = [call |-> "drawCube", args |-> <<x, y, z>>,
                  out |-> drawCube(variant, camera, x, y, z)]
    /\ toast' = "none"
    /\ event' = Ev("drawCube")
    /\ UNCHANGED <<held, variant, gameMode, selectedServer, editVars, selectedBlock,
                   health, hunger, uiVars, camera, swingVars, lockVars,
                   mouseDown, keysPressed, botVars>>

\* project3DTo2D applied to the fixed-point world point (x, y, z)
project3DTo2DCall(x, y, z) ==
    /\ Drawing
    /\ render' = [call |-> "project3DTo2D", args |-> <<x, y, z>>,
                  out |-> project3DTo2D(variant, camera, x, y, z)]
    /\ toast' = "none"
    /\ event' = Ev("project3DTo2D")
    /\ UNCHANGED <<held, variant, gameMode, selectedServer, editVars, selectedBlock,
                   health, hunger, uiVars, camera, swingVars, lockVars,
                   mouseDown, keysPressed, botVars>>

-----------------------------------------------------------------------------
(* Specification: world editing on all four pages, from the spawn point *)

\* pointer deltas a mouse-move event carries, in quarter turns
Deltas == {<<-1, 0>>, <<1, 0>>, <<0, -1>>, <<0, 1>>}

\* grid cells explored by the clicks on the 2D canvas
Cells2D == {<<3, 7>>, <<3, 9>>}

\* slot types explored by the selection clicks
SelectTypes == {"dirt"}

Seeds == 0..(MaxSeed - 1)

\* the steps that put the player into a world and capture the pointer
Enter ==
    \/ \E seed \in Seeds : startGame("creative", seed)
    \/ openServers
    \/ joinServer("funtime")
    \/ overlayStart
    \/ handlePointerLockChange

Next ==
    \/ Enter
    \/ \E d \in Deltas : handleMouseMove(d[1], d[2])
    \/ handleMouseDown
    \/ handleMouseUp
    \/ \E t \in SelectTypes : selectHotbar(t)
    \/ \E t \in SelectTypes : selectInPanel(t)
    \/ inventoryButton
    \/ edits < MaxEdits /\ \E c \in Cells2D, button \in {0, 2} :
                              handleCanvasClick2D(c[1], c[2], button)
    \/ edits < MaxEdits /\ handleCanvasClick
    \/ edits < MaxEdits /\ handleContextMenu

Spec == Init /\ [][Next]_vars

-----------------------------------------------------------------------------
(* Specification: the swing animation on the first-person pages *)

\* slot types explored by the clicks in the inventory menu
PanelTypes == {"planks"}

NextSwing ==
    \/ Enter
    \/ handleKeyDown("e", FALSE)
    \/ \E t \in PanelTypes : selectInPanel(t)
    \/ closeInventory
    \/ edits < MaxEdits /\ handleCanvasClick
    \/ edits < MaxEdits /\ handleContextMenu
    \/ swingInterval

SpecSwing == Init /\ [][NextSwing]_vars

-----------------------------------------------------------------------------
(* Specification: descending from the spawn point and digging *)

\* number of removals explored while digging
MaxDig == 1

\* pointer deltas that only turn the camera
YawDeltas == {<<-1, 0>>, <<1, 0>>}

\* the camera is less than MaxTicks ticks below its spawn height
NearSpawnHeight == camera.y > (5 * Unit) - MaxTicks * speed(variant)

NextDig ==
    \/ Enter
    \/ \E d \in YawDeltas : handleMouseMove(d[1], d[2])
    \/ handleKeyDown("shift", FALSE)
    \/ handleKeyUp("shift")
    \/ NearSpawnHeight /\ moveInterval
    \/ edits < MaxDig /\ handleContextMenu

SpecDig == Init /\ [][NextDig]_vars

-----------------------------------------------------------------------------
(* Specification: placing until the selected slot is empty *)

NextDrain ==
    \/ Enter
    \/ inventoryButton
    \/ handleCanvasClick

SpecDrain == Init /\ [][NextDrain]_vars

-----------------------------------------------------------------------------
(* Specification: walking to the borders of the world *)

\* pointer deltas that only tilt the camera
PitchDeltas == {<<0, -1>>, <<0, 1>>}

\* keys explored by the walk
WalkKeys == {"w", "a", "s", "d", " ", "shift"}

NextWalk ==
    \/ Enter
    \/ \E d \in PitchDeltas : handleMouseMove(d[1], d[2])
    \/ \E k \in WalkKeys : handleKeyDown(k, FALSE)
    \/ moveInterval

SpecWalk == Init /\ [][NextWalk]_vars

-----------------------------------------------------------------------------
(* Properties of the edit handlers *)

RECURSIVE SumCounts(_, _)
\* the sum of the counts of the first n inventory slots
SumCounts(inv, n) == IF n = 0 THEN 0 ELSE inv[n].count + SumCounts(inv, n - 1)

\* the number of world blocks whose type has an inventory slot
Tracked(inv, w) == Cardinality({i \in 1..Len(w) : w[i].type \in slotTypes(inv)})

Total(inv, w) == SumCounts(inv, Len(inv)) + Tracked(inv, w)

\* some block of w lies at cell c
Occupied(w, c) == \E i \in 1..Len(w) : w[i].x = c.x /\ w[i].y = c.y /\ w[i].z = c.z

\* w with its k-th block taken out
Without(w, k) == SubSeq(w, 1, k - 1) \o SubSeq(w, k + 1, Len(w))

\* the camera position plus `halves` half-blocks of the look vector, rounded
Sample(halves) ==
    [x |-> Round(camera.x + (halves * Unit * Sin(camera.yaw) * Cos(camera.pitch)) \div 2),
     y |-> Round(camera.y - (halves * Unit * Sin(camera.pitch)) \div 2),
     z |-> Round(camera.z + (halves * Unit * Cos(camera.yaw) * Cos(camera.pitch)) \div 2)]

\* the place target of the pointer-capture pages: 3 blocks along the look vector
Target == Sample(6)

\* the first of the distances 1, 1.5, ..., 5 (in halves) whose sampled cell is
\* occupied, 0 when none is
FirstOccupied ==
    LET taken == {h \in 2..10 : Occupied(world, Sample(h))}
    IN IF taken = {} THEN 0 ELSE CHOOSE h \in taken : \A g \in taken : h <= g

\* the step is a place or remove event on the canvas
EditEvent == event'.name \in {"click", "contextmenu"}

\* C1: on the pages that have both a place and a remove action (2D page and
\* the two pointer-capture pages), no place or remove event changes the sum
\* of all inventory counts plus the number of world blocks whose type has an
\* inventory slot; so the sum keeps the value the generated world gave it.
C1_Conservation ==
    [][(variant # "drag" /\ EditEvent)
          => Total(inventory', world') = Total(inventory, world)]_vars

\* a world in which one block was placed and one removed since generation,
\* the last edit being a remove
C1_Witness ==
    /\ variant = "full"
    /\ selectedServer = "null"
    /\ edits = 2
    /\ toast = "removed"
    /\ Len(world) = 3 * WORLD_SIZE * WORLD_SIZE

\* C2: on the "full" page, a click with the pointer captured, a positive
\* count of the selected type and a free target cell (camera + 3 * look
\* vector, rounded) appends exactly one block of the selected type at that
\* cell and lowers exactly that type's count by one, all other blocks and
\* counts unchanged; and every click changes the world exactly when it
\* changes the inventory.
C2_PlaceAtomic ==
    [][(variant = "full" /\ event'.name = "click")
          => /\ (world' = world) <=> (inventory' = inventory)
             /\ (pointerLocked /\ countOf(inventory, selectedBlock) > 0
                   /\ ~Occupied(world, Target))
                  => /\ world' = Append(world, [type |-> selectedBlock,
                                                x |-> Target.x, y |-> Target.y,
                                                z |-> Target.z])
                     /\ inventory' =
                          [i \in 1..Len(inventory) |->
                             IF inventory[i].type = selectedBlock
                             THEN [type |-> selectedBlock,
                                   count |-> inventory[i].count - 1]
                             ELSE inventory[i]]]_vars

\* the "full" page right after a successful place of a dirt block
C2_Witness ==
    /\ variant = "full"
    /\ event.name = "click"
    /\ toast = "placed"
    /\ selectedBlock = "dirt"
    /\ countOf(inventory, "dirt") = 63

C6_UniqueKey ==
    variant \in FirstPerson
      => Cardinality({<<world[i].x, world[i].y, world[i].z>> : i \in 1..Len(world)})
           = Len(world)

\* C7: on the pointer-capture pages a remove event takes at most one block
\* out of the world; with the pointer captured and some sampled cell of the
\* look ray (distances 1, 1.5, ..., 5) occupied it takes out exactly one
\* block, one lying at the first occupied sampled cell; otherwise none.
C7_RemoveFirstHit ==
    [][(variant \in Capture /\ event'.name = "contextmenu")
          => \E first \in {FirstOccupied} :
                IF pointerLocked /\ first # 0
                THEN \E c \in {Sample(first)} : \E k \in 1..Len(world) :
                        /\ world[k].x = c.x
                        /\ world[k].y = c.y
                        /\ world[k].z = c.z
                        /\ world' = Without(world, k)
                ELSE world' = world]_vars

\* right after a remove that took the nearest block of the ray while a
\* farther sampled cell of the same ray still holds a block
C7_Witness ==
    /\ variant = "full"
    /\ event.name = "contextmenu"
    /\ toast = "removed"
    /\ ~Occupied(world, Sample(2))
    /\ Occupied(world, Sample(4))

\* C8: on the pointer-capture pages a remove event issued when no sampled
\* cell of the look ray holds a block leaves world, inventory and swing
\* state unchanged and emits no notification.
C8_RemoveMiss ==
    [][(variant \in Capture /\ event'.name = "contextmenu" /\ FirstOccupied = 0)
          => /\ UNCHANGED <<world, inventory, handAnimation, isSwinging>>
             /\ toast' = "none"]_vars

\* a remove event handled with the pointer captured and nothing in reach
C8_Witness ==
    /\ variant \in Capture
    /\ event.name = "contextmenu"
    /\ pointerLocked
    /\ FirstOccupied = 0

\* C3: on the pointer-capture pages every remove event that takes a block
\* out of the world leaves the inventory with a count for that block's type
\* that is one more than before (counting a missing slot as 0).
C3_RemoveCredits ==
    [][(variant \in Capture /\ event'.name = "contextmenu" /\ world' # world)
          => \A c \in {Sample(FirstOccupied)} : \A k \in 1..Len(world) :
                (/\ world[k].x = c.x
                 /\ world[k].y = c.y
                 /\ world[k].z = c.z
                 /\ world' = Without(world, k))
                  => countOf(inventory', world[k].type)
                       = Max(countOf(inventory, world[k].type), 0) + 1]_vars

\* C4: on every page, a place event with grass selected and a grass count of
\* 0 leaves world and inventory unchanged and emits the
\* insufficient-resources notification.
C4_Insufficient ==
    [][(/\ event'.name = "click"
        /\ Playable
        /\ variant \in Capture => pointerLocked
        /\ selectedBlock = "grass"
        /\ countOf(inventory, "grass") = 0)
          => /\ world' = world
             /\ inventory' = inventory
             /\ toast' = "insufficient"]_vars

\* C9: on the pointer-capture pages, every click handled with the pointer
\* captured sets isSwinging and resets the phase to 0, whether a block is
\* placed, the cell is occupied or the count is 0; a remove event does the
\* same when it takes a block out of the world and otherwise leaves the
\* swing state alone.
C9_SwingStart ==
    [][/\ (variant \in Capture /\ pointerLocked /\ event'.name = "click")
            => (isSwinging' /\ handAnimation' = 0)
       /\ (variant \in Capture /\ event'.name = "contextmenu")
            => IF world' # world
               THEN isSwinging' /\ handAnimation' = 0
               ELSE UNCHANGED <<isSwinging, handAnimation>>]_vars

\* a click on the "full" page rejected for an empty slot: the swing started
C9_Witness ==
    /\ variant = "full"
    /\ event.name = "click"
    /\ toast = "insufficient"
    /\ pointerLocked
    /\ isSwinging
    /\ handAnimation = 0

\* C10: in every state of a pointer-capture page the camera satisfies
\* 0 <= x <= WORLD_SIZE - 1, 0 <= z <= WORLD_SIZE - 1, 2 <= y <= 20 and
\* -pi/2 <= pitch <= pi/2.
C10_CameraBounds ==
    variant \in Capture
      => /\ 0 <= camera.x /\ camera.x <= (WORLD_SIZE - 1) * Unit
         /\ 0 <= camera.z /\ camera.z <= (WORLD_SIZE - 1) * Unit
         /\ 2 * Unit <= camera.y /\ camera.y <= 20 * Unit
         /\ -1 <= camera.pitch /\ camera.pitch <= 1

\* the camera of the part_000 page, walked from the village spawn point
\* (z = 22) against the border z = 0 in steps of 0.15, which do not divide 22
C10_Witness ==
    /\ variant = "lock"
    /\ selectedServer = "funtime"
    /\ event.name = "tick"
    /\ "w" \in keysPressed
    /\ camera.z = 0

-----------------------------------------------------------------------------
(* Specification: input while the pointer is released again *)

NextGate ==
    \/ Enter
    \/ \E d \in PitchDeltas : handleMouseMove(d[1], d[2])
    \/ handleKeyDown("escape", FALSE)
    \/ edits < MaxDig /\ handleCanvasClick
    \/ edits < MaxDig /\ handleContextMenu

SpecGate == Init /\ [][NextGate]_vars

\* C11: on the pointer-capture pages, while pointerLocked is false, a
\* pointer-move event leaves the camera unchanged, a context-menu event
\* leaves world, inventory and swing state unchanged, and a primary click
\* requests the pointer lock and leaves world, inventory and swing state
\* unchanged.
C11_UnlockedInert ==
    [][(variant \in Capture /\ ~pointerLocked) =>
         /\ event'.name = "mousemove" => camera' = camera
         /\ event'.name = "contextmenu" =>
               UNCHANGED <<world, inventory, handAnimation, isSwinging>>
         /\ event'.name = "click" =>
               /\ UNCHANGED <<world, inventory, handAnimation, isSwinging>>
               /\ lockElement']_vars

\* a context-menu event arrived while the pointer was released after the
\* camera had been tilted down at the ground
C11_Witness ==
    /\ variant = "full"
    /\ event.name = "contextmenu"
    /\ ~pointerLocked
    /\ camera.pitch = 1
    /\ firstHit(world, camera) # 0

-----------------------------------------------------------------------------
(* Specification: the chat and inventory overlays *)

\* keys explored while the overlays open and close
OverlayKeys == {"w", "e", "t", "escape"}

NextOverlay ==
    \/ Enter
    \/ \E k \in OverlayKeys : handleKeyDown(k, FALSE)
    \/ handleKeyUp("w")
    \/ closeInventory
    \/ moveInterval

SpecOverlay == Init /\ [][NextOverlay]_vars

\* C12: on the page with both overlays, a motion tick that fires while
\* the chat or the inventory overlay is shown leaves the camera's x, y and
\* z unchanged, whatever keys the key-state set holds.
C12_OverlayPausesMotion ==
    [][(variant = "full" /\ (showChat \/ showInventory)
          /\ event'.name = "tick") =>
         /\ camera'.x = camera.x
         /\ camera'.y = camera.y
         /\ camera'.z = camera.z]_vars

\* a motion tick fired with the chat overlay shown and W held, away from
\* the border where the clamp would hide a step
C12_Witness ==
    /\ variant = "full"
    /\ showChat
    /\ event.name = "tick"
    /\ "w" \in keysPressed
    /\ camera.z > 0
    /\ camera.z < (WORLD_SIZE - 1) * Unit

\* C13: on the page with both overlays no reachable state has the
\* pointer lock released, no pointerlockchange notification pending and
\* pointerLocked still true; in particular after E or T was pressed while
\* the pointer was captured.
C13_ForcedRelease ==
    ~(variant = "full" /\ ~lockElement /\ ~lockPending /\ pointerLocked)

-----------------------------------------------------------------------------
(* Specification: hunger, death in hardcore mode and the Home button *)

\* modes started from the main menu while hunger is explored
TimedModes == {"survival", "hardcore"}

NextHardcore ==
    \/ \E mode \in TimedModes, seed \in Seeds : startGame(mode, seed)
    \/ overlayStart
    \/ handlePointerLockChange
    \/ \E k \in {"e", "t"} : handleKeyDown(k, FALSE)
    \/ hungerInterval
    \/ goHome

SpecHardcore == Init /\ [][NextHardcore]_vars

\* C14: on the page with both overlays every step that changes the game
\* mode to the menu, by the Home button or by death in hardcore mode,
\* ends with the inventory not shown, the chat not shown and the pointer
\* lock released.
C14_MenuClosesOverlays ==
    [][(variant = "full" /\ gameMode # "menu" /\ gameMode' = "menu") =>
         (~showInventory' /\ ~showChat' /\ ~lockElement')]_vars

-----------------------------------------------------------------------------
(* Specification: mode changes, with the timers and listeners running *)

\* longest chat history explored
MaxChat == 2

\* modes started from the main menu while the mode changes are explored
StartModes == {"creative", "survival"}

\* the first companion is less than MaxTicks steps from where it started
BotsNearStart ==
    Len(bots) > 0 => bots[1].x - botList[1].x < MaxTicks * botSpeed

NextModes ==
    \/ \E mode \in StartModes, seed \in Seeds : startGame(mode, seed)
    \/ openServers
    \/ closeServers
    \/ Len(chatMessages) < MaxChat /\ joinServer("funtime")
    \/ goHome
    \/ handleKeyUp("w")
    \/ \E d \in YawDeltas : handleMouseMove(d[1], d[2])
    \/ moveInterval
    \/ hunger > 200 - MaxTicks /\ hungerInterval
    \/ BotsNearStart /\ botMoveInterval
    \/ Len(chatMessages) < MaxChat /\ botChatInterval

SpecModes == Init /\ [][NextModes]_vars

\* the events of the mode-scoped timers and listeners
ScopedEvents == {"tick", "keydown", "keyup", "mousemove", "mousedown",
                 "mouseup", "hunger", "botMove", "botChat"}

\* C15: while the game mode is menu or servers no mode-scoped timer or
\* listener runs: no motion tick, key or pointer event, hunger tick,
\* companion-motion tick or companion-chat tick is handled.
C15_MenuQuiescent ==
    [][(gameMode \in {"menu", "servers"}) =>
         (event'.name \notin ScopedEvents)]_vars

\* C16: every entry into a playable mode starts from fresh state: after
\* startGame the inventory, the selected block, the camera, health,
\* hunger, the companions, the chat history and the selected server have
\* their initial values and the pointer-capture pages hold the flat
\* world; after joinServer the inventory, the selected block, health and
\* hunger have their initial values and the world is the village.
C16_FreshStart ==
    [][/\ event'.name = "startGame" =>
            /\ inventory' = initialInventory(variant)
            /\ selectedBlock' = "grass"
            /\ camera' = initialCamera(variant)
            /\ health' = 100
            /\ hunger' = 200
            /\ bots' = <<>>
            /\ chatMessages' = <<>>
            /\ selectedServer' = "null"
            /\ variant \in Capture => world' = generateFlatWorld
       /\ event'.name = "joinServer" =>
            /\ inventory' = initialInventory(variant)
            /\ selectedBlock' = "grass"
            /\ health' = 100
            /\ hunger' = 200
            /\ world' = generateVillage]_vars

-----------------------------------------------------------------------------
(* Specification: the render functions on bounded inputs *)

\* three blocks at horizontal distances 1, 5 and 3 from the spawn point
ThreeBlocks ==
    << Block("grass", 15, 0, 16), Block("stone", 15, 0, 20),
       Block("dirt", 15, 0, 18) >>

\* blocks at and beyond the render distances, two at the same distance,
\* one behind the spawn point and a doorway marker
EdgeBlocks ==
    << Block("stone", 15, 0, 0), Block("air", 15, 1, 17),
       Block("planks", 15, 1, 14), Block("grass", 16, 0, 15),
       Block("dirt", 14, 0, 15), Block("stone", 15, 0, 5),
       Block("wood", 15, 4, 15), Block("cobblestone", 15, 0, 29) >>

\* the rows of the flat world on both sides of the spawn point
GroundStrip ==
    SelectSeq(generateFlatWorld, LAMBDA b : b.x \in 14..16)

\* worlds the frames are drawn from
RenderWorlds(v) ==
    IF v = "drag"
    THEN {ThreeBlocks, SelectSeq(EdgeBlocks, LAMBDA b : b.type # "air")}
    ELSE {ThreeBlocks, EdgeBlocks, GroundStrip}

\* cameras the frames are drawn from: the spawn point and a point a few
\* motion ticks away from it, at every quarter turn and pitch
RenderCameras ==
    {[Cam(15, 5, 15) EXCEPT !.x = @ + o[1], !.z = @ + o[2],
                            !.yaw = q, !.pitch = p] :
        o \in {<<0, 0>>, <<20, -40>>}, q \in 0..3, p \in -1..1}

\* offsets of the projected points from the camera, in fixed point
ProbeOffsets ==
    {<<0, 0, d>> : d \in {-100, 0, 10, 11, 100, 250, 1400}}
    \cup {<<100, 50, 300>>, <<-200, -500, 100>>, <<300, 0, 0>>, <<0, 300, 5>>}

\* cells whose cubes are drawn one by one
ProbeCells ==
    {<<15, 0, 16>>, <<15, 4, 15>>, <<15, 5, 18>>, <<14, 0, 14>>, <<15, 5, 15>>}

InitRender ==
    /\ variant \in FirstPerson
    /\ gameMode = "creative"
    /\ selectedServer = "null"
    /\ world \in RenderWorlds(variant)
    /\ inventory = initialInventory(variant)
    /\ selectedBlock = "grass"
    /\ health = 100
    /\ hunger = 200
    /\ showInventory = FALSE
    /\ showChat = FALSE
    /\ camera \in RenderCameras
    /\ handAnimation = 0
    /\ isSwinging = FALSE
    /\ pointerLocked = FALSE
    /\ lockElement = FALSE
    /\ lockPending = FALSE
    /\ mouseDown = FALSE
    /\ keysPressed = {}
    /\ bots = <<>>
    /\ chatMessages = <<>>
    /\ toast = "none"
    /\ event = Ev("startGame")
    /\ edits = 0
    /\ render = noRender
    /\ held = {}

\* nothing was rendered since the inputs were drawn: a rendering call
\* reads only the world and the camera, so one call per input suffices
Unrendered == render = noRender

NextRender ==
    \/ Unrendered /\ drawWorld
    \/ Unrendered /\ \E c \in ProbeCells : drawCubeCall(c[1], c[2], c[3])
    \/ Unrendered /\ \E o \in ProbeOffsets :
          project3DTo2DCall(camera.x + o[1], camera.y + o[2], camera.z + o[3])

SpecRender == InitRender /\ [][NextRender]_vars

-----------------------------------------------------------------------------
(* Properties of the render functions *)

\* the centre of the canvas, in hundredths of a pixel
Centre == [x |-> (CanvasWidth * Unit) \div 2, y |-> (CanvasHeight * Unit) \div 2]

\* C17: with yaw = 0 and pitch = 0, project3DTo2D maps a point with the
\* camera's x and y and z = camera z + d, d > 0.1, to the centre of the
\* canvas and to the distance d.
C17_FrontCentre ==
    [][(/\ event'.name = "project3DTo2D"
        /\ camera.yaw = 0
        /\ camera.pitch = 0
        /\ render'.args[1] = camera.x
        /\ render'.args[2] = camera.y
        /\ 10 * (render'.args[3] - camera.z) > Unit) =>
         render'.out = [x |-> Centre.x, y |-> Centre.y,
                        distance |-> render'.args[3] - camera.z]]_vars

\* a point 2.5 blocks in front of a level camera was projected
C17_Witness ==
    /\ event.name = "project3DTo2D"
    /\ camera.yaw = 0
    /\ camera.pitch = 0
    /\ render.args = <<camera.x, camera.y, camera.z + 250>>
    /\ render.out.distance = 250

\* the depth of point p along the look vector of the camera
depth(cam, p) ==
    (p[1] - cam.x) * forward(cam).x + (p[2] - cam.y) * forward(cam).y
    + (p[3] - cam.z) * forward(cam).z

\* some corner of the cube of cell (x, y, z) has a depth <= 0.1
CornerBehind(cam, x, y, z) ==
    \E i \in 1..8 : 10 * depth(cam, corners(x, y, z)[i]) <= Unit

\* C18: on the pointer-capture pages project3DTo2D returns distance -1
\* for a point whose depth along the look vector is <= 0.1 and that
\* depth, which is > 0.1, otherwise; drawCube paints no face of a cube
\* that has a corner with a depth <= 0.1, alone and inside a frame.
C18_HiddenBehind ==
    [][(variant \in Capture) =>
         /\ event'.name = "project3DTo2D" =>
              IF 10 * depth(camera, render'.args) <= Unit
              THEN render'.out.distance = -Unit
              ELSE /\ render'.out.distance = depth(camera, render'.args)
                   /\ 10 * render'.out.distance > Unit
         /\ event'.name = "drawCube" =>
              (CornerBehind(camera, render'.args[1], render'.args[2],
                            render'.args[3]) => render'.out = <<>>)
         /\ event'.name = "frame" =>
              \A i \in 1..Len(render'.out.cubes) :
                 CornerBehind(camera, render'.out.cubes[i].x,
                              render'.out.cubes[i].y, render'.out.cubes[i].z)
                   => ~render'.out.painted[i]]_vars

\* drawCube was called for a cube with corners on both sides of the
\* 0.1 depth and painted nothing
C18_Witness ==
    /\ variant = "full"
    /\ event.name = "drawCube"
    /\ CornerBehind(camera, render.args[1], render.args[2], render.args[3])
    /\ \E i \in 1..8 :
          10 * depth(camera, corners(render.args[1], render.args[2],
                                     render.args[3])[i]) > Unit
    /\ render.out = <<>>

\* the number of elements of s equal to b
Count(s, b) == Cardinality({i \in 1..Len(s) : s[i] = b})

\* the block is not air and horizontally nearer than the render distance
Eligible(v, b, cam) ==
    /\ b.type # "air"
    /\ distance2(b, cam) < renderDistance(v) * Unit * renderDistance(v) * Unit

\* C19: the cubes a frame hands to drawCube are exactly the non-air
\* blocks of the world whose horizontal distance to the camera is below
\* the render distance, each as often as the world holds it, in
\* non-increasing order of that distance.
C19_FarFirst ==
    [][event'.name = "frame" =>
         /\ \A i \in 1..Len(render'.out.cubes) :
               Eligible(variant, render'.out.cubes[i], camera)
         /\ \A i \in 1..(Len(render'.out.cubes) - 1) :
               distance2(render'.out.cubes[i], camera)
                 >= distance2(render'.out.cubes[i + 1], camera)
         /\ \A k \in 1..Len(world) :
               Count(render'.out.cubes, world[k]) =
                 IF Eligible(variant, world[k], camera)
                 THEN Count(world, world[k]) ELSE 0]_vars

\* a frame of blocks at distances 1, 5 and 3 drew them as 5, 3, 1
C19_Witness ==
    /\ event.name = "frame"
    /\ world = ThreeBlocks
    /\ camera = Cam(15, 5, 15)
    /\ render.out.cubes = << Block("stone", 15, 0, 20), Block("dirt", 15, 0, 18),
                             Block("grass", 15, 0, 16) >>

-----------------------------------------------------------------------------
(* Properties of the generated village *)

\* startX, startZ and width of the four buildHouse calls
houses == {<<5, 5, 6>>, <<13, 5, 5>>, <<5, 13, 7>>, <<14, 14, 6>>}

\* the two doorway cells of house h
doorway(h) == {<<h[1] + (h[3] \div 2), y, h[2]>> : y \in {1, 2}}

\* C20: the village generated on joining the server holds no block other
\* than air at the two doorway cells of each of the four houses.
C20_Doorways ==
    [][(variant \in Capture /\ event'.name = "joinServer") =>
         \A h \in houses : \A c \in doorway(h) :
            \A k \in 1..Len(world') :
               SameCell(world'[k], c[1], c[2], c[3]) => world'[k].type = "air"]_vars

-----------------------------------------------------------------------------
(* Specification: leaving and re-entering the village *)

\* number of motion ticks explored around the village spawn point
MaxSteps == 2

\* the camera is on the line through the village spawn point along z, less
\* than MaxSteps motion ticks from it
NearVillageSpawn ==
    /\ camera.x = villageCamera(variant).x
    /\ camera.z - villageCamera(variant).z < MaxSteps * speed(variant)
    /\ villageCamera(variant).z - camera.z < MaxSteps * speed(variant)

NextVillage ==
    \/ Enter
    \/ goHome
    \/ \E d \in YawDeltas : handleMouseMove(d[1], d[2])
    \/ handleKeyDown("w", FALSE)
    \/ NearVillageSpawn /\ moveInterval
    \/ edits < MaxDig /\ handleCanvasClick

SpecVillage == Init /\ [][NextVillage]_vars

\* a step on which the generation effect runs generateVillage
VillageRun ==
    /\ variant \in Capture
    /\ event'.name \in {"joinServer", "startGame"}
    /\ selectedServer' = "funtime"

-----------------------------------------------------------------------------
(* Specification: the keyboard, with and without registered listeners *)

\* keys explored: one motion key and the inventory key
PressKeys == {"w", "e"}

\* the camera is less than MaxSteps motion ticks from its initial position
NearStart ==
    /\ camera.z - initialCamera(variant).z < MaxSteps * speed(variant)
    /\ initialCamera(variant).z - camera.z < MaxSteps * speed(variant)

NextKeys ==
    \/ \E seed \in Seeds : startGame("creative", seed)
    \/ goHome
    \/ \E k \in PressKeys : handleKeyDown(k, FALSE)
    \/ \E k \in PressKeys : handleKeyUp(k)
    \/ \E k \in PressKeys : keyDownUnheard(k)
    \/ \E k \in PressKeys : keyUpUnheard(k)
    \/ closeInventory
    \/ NearStart /\ moveInterval

SpecKeys == Init /\ [][NextKeys]_vars

\* C22: on the page with the inventory menu, in a playable mode with the
\* chat closed, every press of E inverts showInventory: it opens the
\* closed overlay and closes the open one.
C22_EToggles ==
    [][(/\ variant = "full"
        /\ Playable
        /\ ~showChat
        /\ event'.name \in {"keydown", "keydownUnheard"}
        /\ event'.at = <<"e">>) =>
         showInventory' = ~showInventory]_vars

\* C24: a motion tick that fires while no motion key is physically held
\* leaves the camera where it is, and the motion keys in the key-state set
\* it reads are all physically held.
C24_NoGhostKeys ==
    [][(event'.name = "tick") =>
         /\ (keysPressed \cap MotionKeys) \subseteq held
         /\ (held = {} => camera' = camera)]_vars

-----------------------------------------------------------------------------
(* Specification: crafting, placing and removing *)

\* number of planks crafts explored
MaxCraft == 2

\* recipe r may still be tried: the planks recipe MaxCraft times, the
\* stone recipe until the cobblestone is used up and beyond
CraftBudget(r) ==
    r = 1 => countOf(inventory, "wood") > countOf(initialInventory(variant), "wood") - MaxCraft

\* the stone recipe was not used yet or has used up the cobblestone
Undivided ==
    countOf(inventory, "cobblestone") \in {0, countOf(initialInventory(variant), "cobblestone")}

NextCraft ==
    \/ \E seed \in Seeds : startGame("creative", seed)
    \/ overlayStart
    \/ handlePointerLockChange
    \/ goHome
    \/ handleMouseMove(0, 1)
    \/ handleKeyDown("e", FALSE)
    \/ \E t \in PanelTypes : selectInPanel(t)
    \/ \E r \in 1..Len(recipes) : CraftBudget(r) /\ handleCraft(r)
    \/ closeInventory
    \/ edits < MaxDig /\ Undivided /\ handleCanvasClick
    \/ edits < MaxDig /\ Undivided /\ handleContextMenu

SpecCraft == Init /\ [][NextCraft]_vars

\* C23: every inventory count is >= 0 in every reachable state.
C23_CountsNonNegative ==
    \A i \in 1..Len(inventory) : inventory[i].count >= 0

\* the cobblestone slot was crafted down to 0 and the stone recipe was
\* tried once more
C23_Witness ==
    /\ event.name = "craft"
    /\ event.at = <<2>>
    /\ toast = "none"
    /\ countOf(inventory, "cobblestone") = 0

\* the count recipe rec takes from the slot of type t
Needed(rec, t) ==
    IF \E n \in 1..Len(rec.ingredients) : rec.ingredients[n].type = t
    THEN rec.ingredients[CHOOSE n \in 1..Len(rec.ingredients) :
                            rec.ingredients[n].type = t].count
    ELSE 0

\* the count recipe rec adds to the slot of type t
Yield(rec, t) == IF rec.result = t THEN rec.resultCount ELSE 0

\* C28: a craft of a recipe whose every ingredient is in the inventory in
\* the required count takes exactly the ingredient counts from their
\* slots and adds exactly resultCount to the slot of the result type,
\* other slots unchanged (1 wood gives 4 planks, 1 cobblestone gives 1
\* stone); a craft with an ingredient short leaves the inventory as it is.
C28_CraftExact ==
    [][(event'.name = "craft") =>
         \E rec \in {recipes[event'.at[1]]} :
            /\ Len(inventory') = Len(inventory)
            /\ \A i \in 1..Len(inventory) :
                  /\ inventory'[i].type = inventory[i].type
                  /\ inventory'[i].count =
                        IF \A n \in 1..Len(rec.ingredients) :
                              \E j \in 1..Len(inventory) :
                                 /\ inventory[j].type = rec.ingredients[n].type
                                 /\ inventory[j].count >= rec.ingredients[n].count
                        THEN inventory[i].count - Needed(rec, inventory[i].type)
                                                + Yield(rec, inventory[i].type)
                        ELSE inventory[i].count]_vars

\* the planks recipe was crafted twice: 2 wood gave 8 planks
C28_Witness ==
    /\ event.name = "craft"
    /\ event.at = <<1>>
    /\ toast = "crafted"
    /\ countOf(inventory, "wood") = countOf(initialInventory(variant), "wood") - 2
    /\ countOf(inventory, "planks") = 8

-----------------------------------------------------------------------------
(* Specification: the hunger timer in every mode *)

NextHunger ==
    \/ \E mode \in menuModes(variant), seed \in Seeds : startGame(mode, seed)
    \/ openServers
    \/ Len(chatMessages) < MaxChat /\ joinServer("funtime")
    \/ goHome
    \/ hungerInterval

SpecHunger == Init /\ [][NextHunger]_vars

\* C25: a hunger tick happens only in survival, hardcore and adventure
\* mode; it lowers hunger by 0.5 but not below 0 and lowers health by 1,
\* not below 0, exactly when the resulting hunger is 0; while the mode is
\* creative neither value changes; hunger and health stay within 0..100.
C25_HungerTick ==
    [][/\ (event'.name = "hunger") =>
            /\ gameMode \in {"survival", "hardcore", "adventure"}
            /\ hunger' = (IF hunger >= 1 THEN hunger - 1 ELSE 0)
            /\ health' = (IF hunger' # 0 THEN health
                          ELSE IF health >= 1 THEN health - 1 ELSE 0)
       /\ (gameMode = "creative" /\ gameMode' = "creative") =>
            (hunger' = hunger /\ health' = health)
       /\ hunger' \in 0..200
       /\ health' \in 0..100]_vars

\* a tick in adventure mode with hunger at 0 took health from 1 to 0
C25_Witness ==
    /\ event.name = "hunger"
    /\ gameMode = "adventure"
    /\ hunger = 0
    /\ health = 0

-----------------------------------------------------------------------------
(* Specification: starving, with the hunger timer firing as long as it is
   registered *)

NextStarve ==
    \/ \E mode \in hungerModes, seed \in Seeds : startGame(mode, seed)
    \/ goHome
    \/ hungerInterval

\* setInterval fires again and again while the effect keeps it registered
SpecStarve == Init /\ [][NextStarve]_vars /\ WF_vars(hungerInterval)

\* C26: in hardcore mode the tick that takes health to 0 ends in the
\* menu, so hardcore is never left standing with health 0, and a game
\* in hardcore mode eventually is in the menu (by that tick, if the player
\* does not leave before); in survival and adventure mode no hunger tick
\* changes the game mode, with health 0 or not.
C26_HardcoreEnds ==
    /\ [](~(gameMode = "hardcore" /\ health = 0))
    /\ [][(gameMode = "hardcore" /\ health' = 0) => gameMode' = "menu"]_vars
    /\ [][(gameMode \in {"survival", "adventure"} /\ event'.name = "hunger") =>
            gameMode' = gameMode]_vars
    /\ (gameMode = "hardcore") ~> (gameMode = "menu")

\* the game-over effect ended a hardcore game
C26_Witness ==
    /\ event.name = "hunger"
    /\ toast = "gameover"
    /\ gameMode = "menu"
    /\ health = 0

-----------------------------------------------------------------------------
(* Specification: the swing animation, with its timer firing as long as it
   is registered *)

\* setInterval(animate, 16) fires again and again while isSwinging holds
SpecSwingFair == Init /\ [][NextSwing]_vars /\ WF_vars(swingInterval)

\* the events that start a swing
SwingStarts == {"click", "contextmenu"}

-----------------------------------------------------------------------------
(* Properties of the motion tick *)

\* the camera is more than one step away from the four borders
Inland(cam, v) ==
    /\ cam.x >= speed(v) /\ cam.x <= (worldSize(v) - 1) * Unit - speed(v)
    /\ cam.z >= speed(v) /\ cam.z <= (worldSize(v) - 1) * Unit - speed(v)

\* C29: on the pointer-capture pages a motion tick with only W held, away
\* from the borders, moves the camera by speed times (sin yaw, cos yaw),
\* the horizontal direction of the look vector of place and remove, and a
\* tick with only S held moves it by the opposite amount.
C29_ForwardFollowsLook ==
    [][(/\ variant \in Capture
        /\ event'.name = "tick"
        /\ keysPressed \in {{"w"}, {"s"}}
        /\ ~showChat /\ ~showInventory
        /\ Inland(camera, variant)) =>
         \E sign \in {IF keysPressed = {"w"} THEN 1 ELSE -1} :
            /\ camera'.x - camera.x = sign * speed(variant) * Sin(camera.yaw)
            /\ camera'.z - camera.z = sign * speed(variant) * Cos(camera.yaw)]_vars

-----------------------------------------------------------------------------
(* Specification: the companions walking to their targets *)

\* number of companions that may pick new targets
MaxRetarget == 1

\* the companions that have picked a target since initializeBots
Retargeted ==
    {i \in 1..Len(bots) : <<bots[i].targetX, bots[i].targetZ>>
                             # <<botList[i].targetX, botList[i].targetZ>>}

NextBots ==
    \/ openServers
    \/ Len(chatMessages) < MaxChat /\ joinServer("funtime")
    \/ goHome
    \/ Cardinality(Retargeted) <= MaxRetarget /\ botMoveInterval
    \/ Len(chatMessages) < MaxChat /\ botChatInterval

SpecBots == Init /\ [][NextBots]_vars

\* C30: a companion-motion tick leaves a companion less than 0.5 from its
\* target where it is and gives it a target with both coordinates in
\* [2.5, WORLD_SIZE - 2.5]; any other companion keeps its target and
\* moves one step of length 0.05 (up to the rounding of the fixed-point
\* coordinates) straight toward it, ending nearer to it; y and name stay,
\* x and z stay inside the world, and the tick changes neither the world
\* nor the inventory.
C30_CompanionStep ==
    [][(event'.name = "botMove") =>
         /\ world' = world
         /\ inventory' = inventory
         /\ Len(bots') = Len(bots)
         /\ \A i \in 1..Len(bots) :
              \E dx \in {bots[i].targetX - bots[i].x} :
              \E dz \in {bots[i].targetZ - bots[i].z} :
              \E sx \in {bots'[i].x - bots[i].x} :
              \E sz \in {bots'[i].z - bots[i].z} :
                 /\ bots'[i].y = bots[i].y
                 /\ bots'[i].name = bots[i].name
                 /\ bots'[i].x >= 0 /\ bots'[i].x <= (WORLD_SIZE - 1) * Unit
                 /\ bots'[i].z >= 0 /\ bots'[i].z <= (WORLD_SIZE - 1) * Unit
                 /\ IF 4 * (dx * dx + dz * dz) < Unit * Unit
                    THEN /\ sx = 0 /\ sz = 0
                         /\ 2 * bots'[i].targetX >= 5 * Unit
                         /\ 2 * bots'[i].targetX <= (2 * WORLD_SIZE - 5) * Unit
                         /\ 2 * bots'[i].targetZ >= 5 * Unit
                         /\ 2 * bots'[i].targetZ <= (2 * WORLD_SIZE - 5) * Unit
                    ELSE /\ bots'[i].targetX = bots[i].targetX
                         /\ bots'[i].targetZ = bots[i].targetZ
                         /\ sx * sx + sz * sz >= (botSpeed - 1) * (botSpeed - 1)
                         /\ sx * sx + sz * sz <= (botSpeed + 1) * (botSpeed + 1)
                         /\ (sx * dz - sz * dx) * (sx * dz - sz * dx) <= dx * dx + dz * dz
                         /\ sx * dx + sz * dz > 0
                         /\ (dx - sx) * (dx - sx) + (dz - sz) * (dz - sz)
                               < dx * dx + dz * dz]_vars

\* a tick in which one companion picked a new target while another walked
C30_Witness ==
    /\ event.name = "botMove"
    /\ Retargeted # {}
    /\ \E i \in 1..Len(bots) : bots[i].x # botList[i].x /\ i \notin Retargeted

====
